---- MODULE Spec2Model ----
(***************************************************************************)
(* Retrieval and hybrid-scoring pipeline of the RAG application:           *)
(* the embed-and-upsert step of the ingest function, the embed-and-search  *)
(* step and the trigger of the query function (main.py), the store wrapper *)
(* QdrantStorage (vector_db.py) and the scroll loop of the visualization   *)
(* export (viz_utils.py).                                                  *)
(*                                                                         *)
(* Strings the code inspects character by character (source ids,           *)
(* questions, point ids) are tuples of one-character strings.  Similarity  *)
(* scores are integers in hundredths (0.1 is 10, 0.5 is 50).               *)
(***************************************************************************)
EXTENDS Integers, Sequences, FiniteSets

VARIABLES
    store,          \* the collection: points [id, vector, payload], kept in id order
    has_collection, \* the collection has been created in the storage folder
    open_clients,   \* per task: QdrantClient instances it created and not yet closed
    pc,             \* per task: position in the running operation
    op,             \* per task: the operation and its arguments
    outcome,        \* per task: how the last operation ended
    job,            \* per task: locals of _upsert / _search: vecs, ids, payloads
    found,          \* per task: locals of _search after the store call
    scan,           \* per task: locals of the scroll loop
    result,         \* per task: value the operation returned
    calls,          \* per task: services called since the operation was triggered
    changed,        \* per task: the last store operation altered the collection
    ingested        \* history, per source and since its last delete: the largest
                    \* chunk count of an ingestion that returned, and the largest
                    \* number of points an upsert wrote; kept by SpecLife only

vars == <<store, has_collection, open_clients, pc, op, outcome, job, found,
          scan, result, calls, changed, ingested>>

-----------------------------------------------------------------------------
(* Bounds of the model *)

MaxChunks == 2      \* longest chunk list of one ingestion
MaxScan == 250      \* largest collection the scan specification starts from

(* Constants of the program, scores in hundredths *)

DefaultTopK == 15
FanOut == 500
ScoreThreshold == 10
BonusBase == 50
BonusPerMatch == 10
PageSize == 100

NAMESPACE_URL == "6ba7b811-9dad-11d1-80b4-00c04fd430c8"

None == <<"None">>

-----------------------------------------------------------------------------
(* Python string operations *)

Range(f) == {f[i] : i \in DOMAIN f}

Min(a, b) == IF a < b THEN a ELSE b

Max(a, b) == IF a > b THEN a ELSE b

\* str.lower() on one character
LowerChar(c) ==
    CASE c = "D" -> "d"
      [] c = "O" -> "o"
      [] c = "C" -> "c"
      [] OTHER -> c

\* str.lower()
Lower(s) == [i \in 1..Len(s) |-> LowerChar(s[i])]

IsSpace(c) == c = " "

\* str.split() with no argument: runs of whitespace separate, no empty token
RECURSIVE SplitFrom(_, _, _)
SplitFrom(s, i, cur) ==
    IF i > Len(s)
    THEN IF cur = <<>> THEN <<>> ELSE <<cur>>
    ELSE IF IsSpace(s[i])
         THEN IF cur = <<>>
              THEN SplitFrom(s, i + 1, <<>>)
              ELSE <<cur>> \o SplitFrom(s, i + 1, <<>>)
         ELSE SplitFrom(s, i + 1, Append(cur, s[i]))

Split(s) == SplitFrom(s, 1, <<>>)

\* "t in s" for strings
IsSubstring(t, s) ==
    \E k \in 0..(Len(s) - Len(t)) : SubSeq(s, k + 1, k + Len(t)) = t

DigitChars == <<"0", "1", "2", "3", "4", "5", "6", "7", "8", "9">>

\* str(i) for i >= 0
RECURSIVE Digits(_)
Digits(i) ==
    IF i < 10
    THEN <<DigitChars[i + 1]>>
    ELSE Digits(i \div 10) \o <<DigitChars[(i % 10) + 1]>>

\* seq[:k] of Python, for any integer k
Slice(seq, k) ==
    IF k >= 0
    THEN SubSeq(seq, 1, Min(k, Len(seq)))
    ELSE SubSeq(seq, 1, Max(0, Len(seq) + k))

-----------------------------------------------------------------------------
(* Inputs *)

SrcDocs == <<"D", "o", "c", "s">>
SrcA1 == <<"a", ":", "1">>

Sources == {SrcDocs, SrcA1}

TextParis == <<"P", "a", "r", "i", "s">>
TextBerlin == <<"B", "e", "r", "l", "i", "n">>

Texts == {TextParis, TextBerlin}

\* chunk lists load_and_chunk_pdf can return: never empty
ChunkLists == UNION {[1..n -> Texts] : n \in 1..MaxChunks}

\* "DOC ocs doc": two distinct terms, one of them twice
QDocs == <<"D", "O", "C", " ", "o", "c", "s", " ", "d", "o", "c">>
\* "a:1  is": one term, one short token, a run of two spaces
QA1 == <<"a", ":", "1", " ", " ", "i", "s">>
\* "is it": no token of three characters
QShort == <<"i", "s", " ", "i", "t">>

Questions == {QDocs, QA1, QShort}

TopKs == {-1, 0, 1, 2}

\* event.data of the query trigger: each key present or absent
QueryEvents ==
    {[question |-> q, top_k |-> k] : q \in Questions \cup {<<>>, None}, k \in TopKs}
        \cup {[question |-> q] : q \in Questions \cup {<<>>}}
        \cup {[top_k |-> k] : k \in TopKs}

\* dict.get(key, default)
Get(data, key, default) == IF key \in DOMAIN data THEN data[key] ELSE default

-----------------------------------------------------------------------------
(* Embedding service: one vector per text, of norm 10, so that the dot     *)
(* product of two vectors is their cosine similarity in hundredths         *)

EmbedOne(t) ==
    CASE t = TextParis -> <<8, 6>>
      [] t = TextBerlin -> <<6, 8>>
      [] t = QDocs -> <<10, 0>>
      [] t = QA1 -> <<-6, 8>>
      [] t = QShort -> <<7, 7>>
      [] OTHER -> <<0, 10>>

\* response.data holds one embedding per input, in input order
embed_texts(texts) == [i \in 1..Len(texts) |-> EmbedOne(texts[i])]

Cosine(u, v) == u[1] * v[1] + u[2] * v[2]

-----------------------------------------------------------------------------
(* Point ids *)

\* f"{source_id}:{i}"
Name(source_id, i) == source_id \o <<":">> \o Digits(i)

\* uuid5: one id per (namespace, name)
Uuid5(ns, name) == <<ns>> \o name

\* the index is left out of the name
PointIdNoIndex(source_id, i) == Uuid5(NAMESPACE_URL, source_id \o <<":">>)

\* str(uuid.uuid5(uuid.NAMESPACE_URL, name=f"{source_id}:{i}")), i counted from 0
PointId(source_id, i) == Uuid5(NAMESPACE_URL, Name(source_id, i))

Alphabet ==
    <<" ", "0", "1", "2", "3", "4", "5", "6", "7", "8", "9", ":",
      "B", "C", "D", "O", "P", "a", "c", "d", "e", "i", "l", "n", "o", "r", "s", "t">>

CharRank == [c \in Range(Alphabet) |-> CHOOSE k \in 1..Len(Alphabet) : Alphabet[k] = c]

\* str < str; also the order of ids the store scrolls in
RECURSIVE LexLess(_, _, _)
LexLess(a, b, i) ==
    IF i > Len(a) THEN i <= Len(b)
    ELSE IF i > Len(b) THEN FALSE
    ELSE IF a[i] = b[i] THEN LexLess(a, b, i + 1)
    ELSE CharRank[a[i]] < CharRank[b[i]]

IdLess(a, b) == LexLess(a, b, 1)

-----------------------------------------------------------------------------
(* The collection *)

\* client.upsert of one point: overwrite the point of that id, else add it
UpsertPoint(st, pt) ==
    IF \E k \in DOMAIN st : st[k].id = pt.id
    THEN [k \in DOMAIN st |-> IF st[k].id = pt.id THEN pt ELSE st[k]]
    ELSE SelectSeq(st, LAMBDA x : IdLess(x.id, pt.id)) \o <<pt>>
             \o SelectSeq(st, LAMBDA x : ~IdLess(x.id, pt.id))

\* client.upsert(collection, points): the points one after the other
RECURSIVE ClientUpsert(_, _)
ClientUpsert(st, points) ==
    IF points = <<>> THEN st
    ELSE ClientUpsert(UpsertPoint(st, Head(points)), Tail(points))

\* every point is added, an existing point of the same id is kept
upsert_vectors_append(st, ids, vectors, payloads) ==
    st \o [i \in 1..Len(ids) |->
              [id |-> ids[i], vector |-> vectors[i], payload |-> payloads[i]]]

\* the points of the batch replace the points of their source
upsert_vectors_replace(st, ids, vectors, payloads) ==
    ClientUpsert(SelectSeq(st, LAMBDA x : \A i \in DOMAIN payloads :
                                  x.payload.source_id # payloads[i].source_id),
                 [i \in 1..Len(ids) |->
                     [id |-> ids[i], vector |-> vectors[i], payload |-> payloads[i]]])

\* QdrantStorage.upsert_vectors
upsert_vectors(st, ids, vectors, payloads) ==
    ClientUpsert(st, [i \in 1..Len(ids) |->
        [id |-> ids[i], vector |-> vectors[i], payload |-> payloads[i]]])

\* every point of the collection goes
delete_source_all(st, source_id) == <<>>

\* QdrantStorage.delete_source: the filter matches payload source_id exactly
delete_source(st, source_id) ==
    SelectSeq(st, LAMBDA x : x.payload.source_id # source_id)

\* the page of at most limit points that starts at position start
Page(st, limit, start) ==
    LET stop == Min(Len(st), start + limit - 1)
    IN  [batch |-> SubSeq(st, start, stop),
         next_offset |-> IF stop < Len(st) THEN st[stop + 1].id ELSE None]

\* client.scroll(limit, offset): the points of id offset and above, in id
\* order, at most limit of them, and the id the next page starts at, None at
\* the end
Scroll(st, limit, offset) ==
    Page(st, limit,
         IF offset = None THEN 1
         ELSE Cardinality({k \in DOMAIN st : IdLess(st[k].id, offset)}) + 1)

\* the order of the nearest-neighbour result: score descending, points of
\* equal score in storage order
RECURSIVE NearestOrder(_, _)
NearestOrder(scores, k) ==
    IF k = 0 THEN <<>>
    ELSE LET prev == NearestOrder(scores, k - 1)
         IN  SelectSeq(prev, LAMBDA j : scores[j] >= scores[k]) \o <<k>>
                 \o SelectSeq(prev, LAMBDA j : scores[j] < scores[k])

\* client.query_points(query, limit, score_threshold).points
query_points(st, query, limit, score_threshold) ==
    LET hits == SelectSeq(st, LAMBDA x : Cosine(query, x.vector) >= score_threshold)
        scores == [k \in DOMAIN hits |-> Cosine(query, hits[k].vector)]
        order == NearestOrder(scores, Len(hits))
    IN  Slice([k \in DOMAIN order |->
                  [payload |-> hits[order[k]].payload, score |-> scores[order[k]]]],
              limit)

\* QdrantStorage.search_vectors(...)["results"], source_id not given
search_vectors(st, query_vector, top_k, score_threshold) ==
    LET points == query_points(st, query_vector, top_k, score_threshold)
        kept == SelectSeq(points, LAMBDA x : Len(x.payload.text) > 0)
    IN  [k \in DOMAIN kept |->
            [text |-> kept[k].payload.text,
             source |-> kept[k].payload.source_id,
             score |-> kept[k].score]]

-----------------------------------------------------------------------------
(* Hybrid rescoring and ranking of _search *)

\* terms = {t for t in question.lower().split() if len(t) >= 3}
Terms(question) == {t \in Range(Split(Lower(question))) : Len(t) >= 3}

\* sum(1 for term in terms if term in source_lower)
Matches(question, source) ==
    Cardinality({t \in Terms(question) : IsSubstring(t, Lower(source))})

\* the increment per match is added once, whatever the number of matches
RescoreFlat(question, r) ==
    IF Matches(question, r.source) > 0
    THEN [r EXCEPT !.score = @ + BonusBase + BonusPerMatch]
    ELSE r

\* if matches > 0: r["score"] += 0.5 + (matches * 0.1)
Rescore(question, r) ==
    LET matches == Matches(question, r.source)
    IN  IF matches > 0
        THEN [r EXCEPT !.score = @ + BonusBase + (matches * BonusPerMatch)]
        ELSE r

\* ascending sort then reverse(): elements of equal key change places
RECURSIVE SortDescendingReversed(_, _)
SortDescendingReversed(scores, k) ==
    IF k = 0 THEN <<>>
    ELSE LET prev == SortDescendingReversed(scores, k - 1)
         IN  SelectSeq(prev, LAMBDA j : scores[j] > scores[k]) \o <<k>>
                 \o SelectSeq(prev, LAMBDA j : scores[j] <= scores[k])

\* results.sort(key=score, reverse=True) on the first k elements, as the
\* sequence of their positions before the sort: list.sort is stable, and with
\* reverse=True elements of equal key keep their order
RECURSIVE SortDescending(_, _)
SortDescending(scores, k) ==
    IF k = 0 THEN <<>>
    ELSE LET prev == SortDescending(scores, k - 1)
         IN  SelectSeq(prev, LAMBDA j : scores[j] >= scores[k]) \o <<k>>
                 \o SelectSeq(prev, LAMBDA j : scores[j] < scores[k])

\* results[:top_k + 1]
TopResultsOneMore(sorted, top_k) == Slice(sorted, top_k + 1)

\* top_results = results[:top_k]
TopResults(sorted, top_k) == Slice(sorted, top_k)

\* the locals of _search once the store has answered
SearchLocals(st, question, top_k, query_vec) ==
    LET raw == search_vectors(st, query_vec, FanOut, ScoreThreshold)
        rescored == [i \in DOMAIN raw |-> Rescore(question, raw[i])]
        order == SortDescending([i \in DOMAIN rescored |-> rescored[i].score],
                                Len(rescored))
        sorted == [k \in DOMAIN order |-> rescored[order[k]]]
        top_results == TopResults(sorted, top_k)
    IN  [raw |-> raw,
         rescored |-> rescored,
         order |-> order,
         contexts |-> [k \in DOMAIN top_results |-> top_results[k].text],
         sources |-> {top_results[k].source : k \in DOMAIN top_results}]

\* sorted(list(sources))
RECURSIVE Sorted(_)
Sorted(S) ==
    IF S = {} THEN <<>>
    ELSE LET m == CHOOSE x \in S : \A y \in S : x = y \/ LexLess(x, y, 1)
         IN  <<m>> \o Sorted(S \ {m})

-----------------------------------------------------------------------------
(* Tasks: the step callbacks and the UI handlers that open the store *)

Tasks == {"t1", "t2"}

NoOp == [kind |-> "none", source_id |-> <<>>, chunks |-> <<>>,
         question |-> <<>>, top_k |-> 0]
NoJob == [vecs |-> <<>>, ids |-> <<>>, payloads |-> <<>>]
NoFound == [raw |-> <<>>, rescored |-> <<>>, order |-> <<>>,
            contexts |-> <<>>, sources |-> {}]
NoScan == [next_offset |-> None, points |-> <<>>, sources |-> {}, pages |-> 0]
NoResult == [inngested |-> 0, listed |-> <<>>, num_contexts |-> 0, sources |-> {}]

\* no history is kept
NoHistory == <<>>

\* the history after an upsert for source s wrote its first `written` points,
\* of an ingestion of `returned` chunks that returned (0 when it raised)
Wrote(h, s, returned, written) ==
    IF s \in DOMAIN h
    THEN [h EXCEPT ![s] = [returned |-> Max(@.returned, returned),
                           written |-> Max(@.written, written)]]
    ELSE h

\* the history after delete_source(s)
Forgot(h, s) ==
    IF s \in DOMAIN h THEN [h EXCEPT ![s] = [returned |-> 0, written |-> 0]] ELSE h

TotalOpen(oc) == oc["t1"] + oc["t2"]

\* no check: the storage folder opens whoever else has it open
StorageLockedNever(oc) == FALSE

\* QdrantClient(path="qdrant_storage"): the folder is opened exclusively, and
\* the constructor raises while another client has it open
StorageLocked(oc) == TotalOpen(oc) > 0

\* only a missing question is refused
FalsyOnlyNone(question) == question = None

\* "not question": None or the empty string
Falsy(question) == question = None \/ question = <<>>

Init ==
    /\ store = <<>>
    /\ has_collection = FALSE
    /\ open_clients = [p \in Tasks |-> 0]
    /\ pc = [p \in Tasks |-> "idle"]
    /\ op = [p \in Tasks |-> NoOp]
    /\ outcome = [p \in Tasks |-> "none"]
    /\ job = [p \in Tasks |-> NoJob]
    /\ found = [p \in Tasks |-> NoFound]
    /\ scan = [p \in Tasks |-> NoScan]
    /\ result = [p \in Tasks |-> NoResult]
    /\ calls = [p \in Tasks |-> {}]
    /\ changed = [p \in Tasks |-> FALSE]
    /\ ingested = NoHistory

\* an operation is triggered on an idle task: its locals start afresh
Begin(p, o, at) ==
    /\ pc[p] = "idle"
    /\ pc' = [pc EXCEPT ![p] = at]
    /\ op' = [op EXCEPT ![p] = o]
    /\ outcome' = [outcome EXCEPT ![p] = "running"]
    /\ job' = [job EXCEPT ![p] = NoJob]
    /\ found' = [found EXCEPT ![p] = NoFound]
    /\ scan' = [scan EXCEPT ![p] = NoScan]
    /\ result' = [result EXCEPT ![p] = NoResult]
    /\ calls' = [calls EXCEPT ![p] = {}]
    /\ changed' = [changed EXCEPT ![p] = FALSE]
    /\ UNCHANGED <<store, ingested, has_collection, open_clients>>

\* the operation ends: it returns (how = "ok") or raises
End(p, how) ==
    /\ pc' = [pc EXCEPT ![p] = "idle"]
    /\ outcome' = [outcome EXCEPT ![p] = how]

\* step "embed-and-upsert" is run, or run again, with the output of step
\* "load-and-chunk"
IngestStart(p, in) ==
    \E s \in in.sources, c \in in.chunklists :
        Begin(p, [NoOp EXCEPT !.kind = "ingest", !.source_id = s, !.chunks = c],
              "embed")

\* rag_query_pdf_ai up to its first step: the question is checked, top_k parsed
QueryTrigger(p, in) ==
    \E data \in in.events :
        LET question == Get(data, "question", None)
        IN  IF Falsy(question)
            THEN /\ Begin(p, [NoOp EXCEPT !.kind = "query", !.question = question],
                          "raise")
            ELSE /\ Begin(p, [NoOp EXCEPT !.kind = "query",
                                          !.question = question,
                                          !.top_k = Get(data, "top_k", DefaultTopK)],
                          "embed")

\* raise ValueError("Missing 'question' in event data. ...")
QueryRefuse(p) ==
    /\ pc[p] = "raise"
    /\ End(p, "ValueError")
    /\ UNCHANGED <<store, ingested, has_collection, open_clients, op, job, found, scan,
                   result, calls, changed>>

ListStart(p) == Begin(p, [NoOp EXCEPT !.kind = "list"], "open")

DeleteStart(p, in) ==
    \E s \in in.sources :
        Begin(p, [NoOp EXCEPT !.kind = "delete", !.source_id = s], "open")

VizStart(p) == Begin(p, [NoOp EXCEPT !.kind = "viz"], "open")

\* _upsert up to the with statement: vecs, ids, payloads;
\* _search up to the with statement: query_vec
Embed(p) ==
    /\ pc[p] = "embed"
    /\ calls' = [calls EXCEPT ![p] = @ \cup {"embedding"}]
    /\ pc' = [pc EXCEPT ![p] = "open"]
    /\ job' = [job EXCEPT ![p] =
          IF op[p].kind = "ingest"
          THEN LET chunks == op[p].chunks
                   source_id == op[p].source_id
               IN  [vecs |-> embed_texts(chunks),
                    ids |-> [i \in 1..Len(chunks) |-> PointId(source_id, i - 1)],
                    payloads |-> [i \in 1..Len(chunks) |->
                                     [source_id |-> source_id, text |-> chunks[i]]]]
          ELSE [NoJob EXCEPT !.vecs = embed_texts(<<op[p].question>>)]]
    /\ UNCHANGED <<store, ingested, has_collection, open_clients, op, outcome, found, scan,
                   result, changed>>

\* the embedding request fails
EmbedFail(p) ==
    /\ pc[p] = "embed"
    /\ calls' = [calls EXCEPT ![p] = @ \cup {"embedding"}]
    /\ End(p, "EmbeddingError")
    /\ UNCHANGED <<store, ingested, has_collection, open_clients, op, job, found, scan,
                   result, changed>>

\* QdrantStorage(): the client cannot be created, the folder is in use
OpenLocked(p) ==
    /\ pc[p] = "open"
    /\ StorageLocked(open_clients)
    /\ calls' = [calls EXCEPT ![p] = @ \cup {"store"}]
    /\ End(p, "StorageLocked")
    /\ UNCHANGED <<store, ingested, has_collection, open_clients, op, job, found, scan,
                   result, changed>>

\* QdrantStorage() and __enter__: client created, collection there or created
Open(p) ==
    /\ pc[p] = "open"
    /\ ~StorageLocked(open_clients)
    /\ calls' = [calls EXCEPT ![p] = @ \cup {"store"}]
    /\ open_clients' = [open_clients EXCEPT ![p] = @ + 1]
    /\ has_collection' = TRUE
    /\ pc' = [pc EXCEPT ![p] = "use"]
    /\ UNCHANGED <<store, ingested, op, outcome, job, found, scan, result, changed>>

\* QdrantStorage(): client created, then collection_exists or
\* create_collection raises out of __init__; nothing closes the client
OpenFail(p) ==
    /\ pc[p] = "open"
    /\ ~StorageLocked(open_clients)
    /\ calls' = [calls EXCEPT ![p] = @ \cup {"store"}]
    /\ open_clients' = [open_clients EXCEPT ![p] = @ + 1]
    /\ End(p, "OpenError")
    /\ UNCHANGED <<store, ingested, has_collection, op, job, found, scan, result, changed>>

\* the client a failed __init__ left behind may be collected at any later
\* time, or never: a collected QdrantClient closes itself
Finalize(p) ==
    /\ pc[p] # "use"
    /\ open_clients[p] > 0
    /\ open_clients' = [open_clients EXCEPT ![p] = @ - 1]
    /\ UNCHANGED <<store, ingested, has_collection, pc, op, outcome, job, found, scan,
                   result, calls, changed>>

\* __exit__: close()
Close(p) == open_clients' = [open_clients EXCEPT ![p] = @ - 1]

\* store.upsert_vectors(ids, vecs, payloads), __exit__, return
Upsert(p) ==
    /\ pc[p] = "use"
    /\ op[p].kind = "ingest"
    /\ store' = upsert_vectors(store, job[p].ids, job[p].vecs, job[p].payloads)
    /\ ingested' = Wrote(ingested, op[p].source_id, Len(op[p].chunks), Len(op[p].chunks))
    /\ Close(p)
    /\ result' = [result EXCEPT ![p] = [NoResult EXCEPT !.inngested = Len(op[p].chunks)]]
    /\ changed' = [changed EXCEPT ![p] = store' # store]
    /\ End(p, "ok")
    /\ UNCHANGED <<has_collection, op, job, found, scan, calls>>

\* the store operation raises; of an upsert the first k points have landed
StoreFail(p) ==
    /\ pc[p] = "use"
    /\ \E k \in 0..Max(0, Len(job[p].ids) - 1) :
          /\ op[p].kind # "ingest" => k = 0
          /\ store' = IF op[p].kind = "ingest"
                      THEN upsert_vectors(store, SubSeq(job[p].ids, 1, k),
                                          job[p].vecs, job[p].payloads)
                      ELSE store
          /\ ingested' = IF op[p].kind = "ingest"
                         THEN Wrote(ingested, op[p].source_id, 0, k)
                         ELSE ingested
    /\ Close(p)
    /\ changed' = [changed EXCEPT ![p] = store' # store]
    /\ End(p, "StoreError")
    /\ UNCHANGED <<has_collection, op, job, found, scan, result, calls>>

\* store.search_vectors(query_vec, top_k=500), __exit__, rescoring, sort,
\* truncation, return of the step
Search(p) ==
    /\ pc[p] = "use"
    /\ op[p].kind = "query"
    /\ found' = [found EXCEPT ![p] =
                    SearchLocals(store, op[p].question, op[p].top_k, job[p].vecs[1])]
    /\ Close(p)
    /\ pc' = [pc EXCEPT ![p] = "llm"]
    /\ UNCHANGED <<store, ingested, has_collection, op, outcome, job, scan, result, calls,
                   changed>>

\* step "llm-answer" and the return of rag_query_pdf_ai
Answer(p) ==
    /\ pc[p] = "llm"
    /\ calls' = [calls EXCEPT ![p] = @ \cup {"llm"}]
    /\ result' = [result EXCEPT ![p] =
                     [NoResult EXCEPT !.sources = found[p].sources,
                                      !.num_contexts = Len(found[p].contexts)]]
    /\ End(p, "ok")
    /\ UNCHANGED <<store, ingested, has_collection, open_clients, op, job, found, scan, changed>>

\* the LLM request fails
AnswerFail(p) ==
    /\ pc[p] = "llm"
    /\ calls' = [calls EXCEPT ![p] = @ \cup {"llm"}]
    /\ End(p, "LLMError")
    /\ UNCHANGED <<store, ingested, has_collection, open_clients, op, job, found, scan,
                   result, changed>>

\* store.delete_source(source_id), __exit__, return
Delete(p) ==
    /\ pc[p] = "use"
    /\ op[p].kind = "delete"
    /\ store' = delete_source(store, op[p].source_id)
    /\ ingested' = Forgot(ingested, op[p].source_id)
    /\ Close(p)
    /\ changed' = [changed EXCEPT ![p] = store' # store]
    /\ End(p, "ok")
    /\ UNCHANGED <<has_collection, op, job, found, scan, result, calls>>

\* the offset is not passed on: every call starts at the first point
OffsetArgNone(sc) == None

\* offset=next_offset: None at first, then what the last call returned
OffsetArg(sc) == sc.next_offset

\* one pass of the while loop of list_sources and get_visualization_data;
\* on next_offset None the loop is left, the store closed, the value returned
ScrollPage(p) ==
    /\ pc[p] = "use"
    /\ op[p].kind \in {"list", "viz"}
    /\ \E page \in {Scroll(store, PageSize, OffsetArg(scan[p]))} :
        LET seen == {page.batch[k].payload.source_id : k \in DOMAIN page.batch}
            sources == scan[p].sources \cup {s \in seen : Len(s) > 0}
        IN  /\ scan' = [scan EXCEPT ![p] =
                          [next_offset |-> page.next_offset,
                           points |-> scan[p].points
                                         \o [k \in DOMAIN page.batch |-> page.batch[k].id],
                           sources |-> sources,
                           pages |-> scan[p].pages + 1]]
            /\ IF page.next_offset = None
               THEN /\ Close(p)
                    /\ result' = [result EXCEPT ![p] =
                          IF op[p].kind = "list"
                          THEN [NoResult EXCEPT !.listed = Sorted(sources)]
                          ELSE NoResult]
                    /\ End(p, "ok")
               ELSE UNCHANGED <<open_clients, result, pc, outcome>>
    /\ UNCHANGED <<store, ingested, has_collection, op, job, found, calls, changed>>

Inputs == [sources |-> Sources, chunklists |-> ChunkLists, events |-> QueryEvents]

Step(p, in) ==
    \/ IngestStart(p, in)
    \/ QueryTrigger(p, in)
    \/ QueryRefuse(p)
    \/ ListStart(p)
    \/ DeleteStart(p, in)
    \/ VizStart(p)
    \/ Embed(p)
    \/ EmbedFail(p)
    \/ OpenLocked(p)
    \/ Open(p)
    \/ OpenFail(p)
    \/ Finalize(p)
    \/ Upsert(p)
    \/ StoreFail(p)
    \/ Search(p)
    \/ Answer(p)
    \/ AnswerFail(p)
    \/ Delete(p)
    \/ ScrollPage(p)

\* one task at a time: the operations run one after the other
Next == Step("t1", Inputs)

Spec == Init /\ [][Next]_vars

-----------------------------------------------------------------------------
(* Two tasks interleaved, step by step, on fewer inputs *)

ConcInputs ==
    [sources |-> {SrcDocs},
     chunklists |-> {<<TextParis>>},
     events |-> {[question |-> QDocs], [top_k |-> 1]}]

NextConc == \E p \in Tasks : Step(p, ConcInputs)

SpecConc == Init /\ [][NextConc]_vars

-----------------------------------------------------------------------------
(* The scroll loop on collections of every size up to MaxScan *)

\* the numbers n, 10n .. 10n+9, ... up to max in the order of their decimal
\* strings
RECURSIVE DecimalOrder(_, _, _)
DecimalOrder(n, d, max) ==
    IF d > 9 THEN <<>>
    ELSE (IF 10 * n + d > max \/ 10 * n + d = 0 THEN <<>>
          ELSE <<10 * n + d>> \o DecimalOrder(10 * n + d, 0, max))
             \o DecimalOrder(n, d + 1, max)

\* the points of an ingestion of count chunks, in id order
SourcePoints(source_id, count) ==
    LET idx == IF count = 0 THEN <<>> ELSE <<0>> \o DecimalOrder(0, 1, count - 1)
    IN  [k \in DOMAIN idx |->
            [id |-> PointId(source_id, idx[k]),
             vector |-> EmbedOne(TextParis),
             payload |-> [source_id |-> source_id, text |-> TextParis]]]

\* a collection of n points, of two sources
ScanStore(n) == SourcePoints(SrcDocs, n - (n \div 2)) \o SourcePoints(SrcA1, n \div 2)

InitScan ==
    /\ \E n \in 0..MaxScan : store = ScanStore(n)
    /\ ingested = NoHistory
    /\ has_collection = TRUE
    /\ open_clients = [p \in Tasks |-> 0]
    /\ pc = [p \in Tasks |-> "idle"]
    /\ op = [p \in Tasks |-> NoOp]
    /\ outcome = [p \in Tasks |-> "none"]
    /\ job = [p \in Tasks |-> NoJob]
    /\ found = [p \in Tasks |-> NoFound]
    /\ scan = [p \in Tasks |-> NoScan]
    /\ result = [p \in Tasks |-> NoResult]
    /\ calls = [p \in Tasks |-> {}]
    /\ changed = [p \in Tasks |-> FALSE]

NextScan ==
    \/ ListStart("t1")
    \/ VizStart("t1")
    \/ Open("t1")
    \/ ScrollPage("t1")
    \/ StoreFail("t1")

SpecScan == InitScan /\ [][NextScan]_vars

-----------------------------------------------------------------------------
(* Ingestions and deletes one after the other, with their history kept *)

InitLife ==
    /\ store = <<>>
    /\ has_collection = FALSE
    /\ open_clients = [p \in Tasks |-> 0]
    /\ pc = [p \in Tasks |-> "idle"]
    /\ op = [p \in Tasks |-> NoOp]
    /\ outcome = [p \in Tasks |-> "none"]
    /\ job = [p \in Tasks |-> NoJob]
    /\ found = [p \in Tasks |-> NoFound]
    /\ scan = [p \in Tasks |-> NoScan]
    /\ result = [p \in Tasks |-> NoResult]
    /\ calls = [p \in Tasks |-> {}]
    /\ changed = [p \in Tasks |-> FALSE]
    /\ ingested = [s \in Sources |-> [returned |-> 0, written |-> 0]]

NextLife ==
    \/ IngestStart("t1", Inputs)
    \/ DeleteStart("t1", Inputs)
    \/ Embed("t1")
    \/ Open("t1")
    \/ Upsert("t1")
    \/ StoreFail("t1")
    \/ Delete("t1")

SpecLife == InitLife /\ [][NextLife]_vars

\* the collection is in id order
StoreSorted == \A k \in 1..(Len(store) - 1) : IdLess(store[k].id, store[k + 1].id)

-----------------------------------------------------------------------------
(* Steps the properties speak about *)

IngestReturns(p) ==
    pc[p] = "use" /\ op[p].kind = "ingest" /\ pc'[p] = "idle" /\ outcome'[p] = "ok"

SearchReturns(p) == pc[p] = "use" /\ op[p].kind = "query" /\ pc'[p] = "llm"

DeleteReturns(p) ==
    pc[p] = "use" /\ op[p].kind = "delete" /\ pc'[p] = "idle" /\ outcome'[p] = "ok"

ListReturns(p) ==
    pc[p] = "use" /\ op[p].kind = "list" /\ pc'[p] = "idle" /\ outcome'[p] = "ok"

IdsOf(st) == {st[k].id : k \in DOMAIN st}

\* the record the ingestion of chunks under source_id stores for chunk i
RecordOf(id, source_id, chunks, i) ==
    [id |-> id, vector |-> EmbedOne(chunks[i]),
     payload |-> [source_id |-> source_id, text |-> chunks[i]]]

\* st holds, for every chunk of the task's ingestion, its record exactly once
HoldsJob(st, p) ==
    \A i \in DOMAIN op[p].chunks :
        /\ Cardinality({k \in DOMAIN st : st[k].id = job[p].ids[i]}) = 1
        /\ \E k \in DOMAIN st :
              st[k] = RecordOf(job[p].ids[i], op[p].source_id, op[p].chunks, i)

\* C1. Idempotent re-ingestion: when the embed-and-upsert step returns, the
\* store holds the record of every chunk exactly once, under ids that are the
\* ids already stored plus the ids of this run; and when the store already
\* held these records (an earlier run of the same step, complete or finished
\* by this retry), the run leaves the store exactly as it was.
IdempotentReingest ==
    [][\A p \in Tasks : IngestReturns(p) =>
          /\ HoldsJob(store', p)
          /\ IdsOf(store') = IdsOf(store) \cup Range(job[p].ids)
          /\ Len(store') = Cardinality(IdsOf(store'))
          /\ (HoldsJob(store, p) => store' = store)]_vars

\* an ingestion of two chunks has returned and found all its records stored
ReingestWitness ==
    \E p \in Tasks :
        /\ op[p].kind = "ingest" /\ pc[p] = "idle" /\ outcome[p] = "ok"
        /\ Len(op[p].chunks) = 2
        /\ ~changed[p]
        /\ HoldsJob(store, p)

\* the candidates the store holds for a question: the points whose similarity
\* to the question reaches the threshold
Qualifying(st, question) ==
    Cardinality({k \in DOMAIN st :
                    Cosine(EmbedOne(question), st[k].vector) >= ScoreThreshold})

TermsOf(question) ==
    LET lq == Lower(question)
    IN  {SubSeq(lq, a, b) : <<a, b>> \in
            {ab \in (1..Len(lq)) \X (1..Len(lq)) :
                /\ ab[2] - ab[1] + 1 >= 3
                /\ \A i \in ab[1]..ab[2] : lq[i] # " "
                /\ (ab[1] = 1 \/ lq[ab[1] - 1] = " ")
                /\ (ab[2] = Len(lq) \/ lq[ab[2] + 1] = " ")}}

\* the number m of distinct terms of the question that occur in the
\* lower-cased source
TermMatches(question, source) ==
    Cardinality({t \in TermsOf(question) : IsSubstring(t, Lower(source))})

\* C3. Hybrid rescoring: with m the number of (distinct) question terms that
\* occur in the candidate's lower-cased source, the adjusted score is
\* original + 0.5 + 0.1*m when m >= 1 and the original score when m = 0, so it
\* is never below the original; text and source are untouched; and a question
\* without terms changes no score.
HybridRescoring ==
    \A p \in Tasks :
        /\ Len(found[p].rescored) = Len(found[p].raw)
        /\ \A i \in DOMAIN found[p].raw :
              LET m == TermMatches(op[p].question, found[p].raw[i].source)
                  before == found[p].raw[i]
                  after == found[p].rescored[i]
              IN  /\ m >= 1 => after.score = before.score + BonusBase + BonusPerMatch * m
                  /\ m = 0 => after.score = before.score
                  /\ after.score >= before.score
                  /\ after.text = before.text /\ after.source = before.source
        /\ TermsOf(op[p].question) = {} => found[p].rescored = found[p].raw

\* one candidate was raised for two matching terms while another, of a
\* source matching no term, kept its score
RescoringWitness ==
    \E p \in Tasks : \E i, j \in DOMAIN found[p].raw :
        /\ TermMatches(op[p].question, found[p].raw[i].source) = 2
        /\ found[p].rescored[i].score = found[p].raw[i].score + 70
        /\ TermMatches(op[p].question, found[p].raw[j].source) = 0
        /\ found[p].rescored[j].score = found[p].raw[j].score

\* C4. Stable ranking: the ranking is a rearrangement of the rescored
\* candidates by adjusted score, descending, in which candidates of equal
\* adjusted score keep the order of the store's result; the contexts are the
\* texts of the ranking's first candidates, in that order.
StableRanking ==
    \A p \in Tasks :
        LET order == found[p].order
            cand == found[p].rescored
        IN  /\ Len(order) = Len(cand)
            /\ Range(order) = DOMAIN cand
            /\ \A k, l \in DOMAIN order : k < l =>
                  \/ cand[order[k]].score > cand[order[l]].score
                  \/ /\ cand[order[k]].score = cand[order[l]].score
                     /\ order[k] < order[l]
            /\ Len(found[p].contexts) <= Len(order)
            /\ \A k \in DOMAIN found[p].contexts :
                  found[p].contexts[k] = cand[order[k]].text

\* two candidates of different text and equal adjusted score were ranked,
\* and both are among the contexts
RankingWitness ==
    \E p \in Tasks : \E k \in DOMAIN found[p].contexts :
        /\ k + 1 \in DOMAIN found[p].contexts
        /\ found[p].rescored[found[p].order[k]].score
              = found[p].rescored[found[p].order[k + 1]].score
        /\ found[p].contexts[k] # found[p].contexts[k + 1]

\* C5. A query whose question is missing or empty ends with the
\* missing-question error, has called neither the embedding service nor the
\* store nor the LLM, and has run no part of a step.
MissingQuestionRefused ==
    \A p \in Tasks :
        (op[p].kind = "query" /\ (op[p].question = None \/ op[p].question = <<>>)) =>
            /\ pc[p] \in {"raise", "idle"}
            /\ pc[p] = "idle" => outcome[p] = "ValueError"
            /\ calls[p] = {}
            /\ job[p] = NoJob /\ found[p] = NoFound /\ result[p] = NoResult

\* a query with an empty question has been refused
MissingQuestionWitness ==
    \E p \in Tasks :
        /\ op[p].kind = "query" /\ op[p].question = <<>>
        /\ pc[p] = "idle" /\ outcome[p] = "ValueError"

\* C6. The paginated full scan ends, within one scroll call per started
\* page of the collection, and visits every point exactly once: what it has
\* visited is at all times the first points of the collection in id order,
\* a full page per call so far, and all of them when the scan has returned.
ScanExactlyOnce ==
    \A p \in Tasks :
        op[p].kind \in {"list", "viz"} =>
            LET all == [k \in DOMAIN store |-> store[k].id]
                seen == scan[p].points
            IN  /\ scan[p].pages <= (Len(store) \div PageSize) + 1
                /\ Len(seen) <= Len(all)
                /\ seen = SubSeq(all, 1, Len(seen))
                /\ Cardinality(Range(seen)) = Len(seen)
                /\ (pc[p] = "use" /\ outcome[p] = "running")
                      => Len(seen) = scan[p].pages * PageSize
                /\ (pc[p] = "idle" /\ outcome[p] = "ok") => seen = all

\* a scan of a collection of 250 points has returned after three pages
ScanWitness ==
    \E p \in Tasks :
        /\ op[p].kind \in {"list", "viz"}
        /\ pc[p] = "idle" /\ outcome[p] = "ok"
        /\ Len(store) = 250
        /\ scan[p].pages = 3
        /\ Len(scan[p].points) = 250

SourcesIn(st) == {st[k].payload.source_id : k \in DOMAIN st}

\* C7. delete_source(s) removes exactly the records of s: when it returns no
\* record of s is left, every record of another source is still there and
\* nothing else is, and with no record of s the store is as it was; and
\* list_sources returns exactly the sources that have a record, so s is not
\* among them after the delete.
DeleteExactlySource ==
    [][\A p \in Tasks :
          /\ DeleteReturns(p) =>
                LET s == op[p].source_id
                    kept == {k \in DOMAIN store : store[k].payload.source_id # s}
                IN  /\ s \notin SourcesIn(store')
                    /\ \A k \in kept : \E l \in DOMAIN store' : store'[l] = store[k]
                    /\ Len(store') = Cardinality(kept)
                    /\ (s \notin SourcesIn(store) => store' = store)
          /\ ListReturns(p) =>
                /\ Range(result'[p].listed) = SourcesIn(store)
                /\ Len(result'[p].listed) = Cardinality(SourcesIn(store))]_vars

\* a delete has removed the records of its source and left those of the other
DeleteWitness ==
    \E p \in Tasks :
        /\ op[p].kind = "delete" /\ pc[p] = "idle" /\ outcome[p] = "ok"
        /\ changed[p]
        /\ store # <<>>
        /\ op[p].source_id \notin SourcesIn(store)

\* C8 as stated. Every store handle an operation opened is closed when the
\* operation has returned or raised.
HandleClosedOnExit == \A p \in Tasks : pc[p] = "idle" => open_clients[p] = 0

IdName(id) == Tail(id)

LastColon(name) == CHOOSE k \in DOMAIN name :
    name[k] = ":" /\ \A l \in DOMAIN name : l > k => name[l] # ":"

\* the source id an id was derived from: the name up to its last colon
IdSource(id) == SubSeq(IdName(id), 1, LastColon(IdName(id)) - 1)

RECURSIVE ParseInt(_)
ParseInt(digits) ==
    IF digits = <<>> THEN 0
    ELSE 10 * ParseInt(SubSeq(digits, 1, Len(digits) - 1))
            + ((CHOOSE d \in 1..10 : DigitChars[d] = digits[Len(digits)]) - 1)

\* the chunk index an id was derived from: the number after the last colon
IdIndex(id) ==
    ParseInt(SubSeq(IdName(id), LastColon(IdName(id)) + 1, Len(IdName(id))))

\* C10. Order preservation in ingest: the i-th id an ingestion derives
\* decodes to (source_id, i), so ids of distinct (source_id, index) pairs
\* differ; and when the upsert returns, the one record whose id decodes to
\* (source_id, i) carries payload {source_id, text: chunk i} and the vector
\* of chunk i.
OrderPreserved ==
    [][\A p \in Tasks :
          /\ \A i \in DOMAIN job'[p].ids :
                /\ IdSource(job'[p].ids[i]) = op'[p].source_id
                /\ IdIndex(job'[p].ids[i]) = i - 1
          /\ IngestReturns(p) =>
                \A i \in DOMAIN op[p].chunks :
                    LET at == {k \in DOMAIN store' :
                                  /\ IdSource(store'[k].id) = op[p].source_id
                                  /\ IdIndex(store'[k].id) = i - 1}
                    IN  /\ Cardinality(at) = 1
                        /\ \A k \in at :
                              /\ store'[k].payload
                                    = [source_id |-> op[p].source_id,
                                       text |-> op[p].chunks[i]]
                              /\ store'[k].vector = EmbedOne(op[p].chunks[i])]_vars

\* an ingestion of two different chunks has returned and the store holds
\* the second chunk under the id of index 1
OrderWitness ==
    \E p \in Tasks :
        /\ op[p].kind = "ingest" /\ pc[p] = "idle" /\ outcome[p] = "ok"
        /\ Len(op[p].chunks) = 2 /\ op[p].chunks[1] # op[p].chunks[2]
        /\ \E k \in DOMAIN store :
              /\ store[k].id = job[p].ids[2]
              /\ IdIndex(store[k].id) = 1
              /\ store[k].payload.text = op[p].chunks[2]

\* the ids of the records stored for a source
IdsOfSource(st, s) == {st[k].id : k \in {j \in DOMAIN st : st[j].payload.source_id = s}}

====
